---- MODULE Spec2Model ----
(***************************************************************************)
(* Model of pubsubmsgrestforwarder (src/main.go): main, the shutdown       *)
(* goroutine, consumeMessages with its per-message callback, and sendPOST. *)
(* The Pub/Sub client library, the HTTP stack and the operating system are *)
(* the environment: their outcomes are nondeterministic choices.           *)
(***************************************************************************)
EXTENDS Integers, Sequences, FiniteSets, TLC

\* ------------------------------------------------------------------ bounds
\* Longest identifier, in parts, and longest payload, in bytes, that
\* transformMessage is applied to.
MaxIdParts == 2
MaxPayloadLen == 3
\* Number of distinct messages the subscription holds during a run.
NumMsgs == 2
\* How often the queue hands one message to the callback during a run.
MaxDeliveries == 2

Msgs == 1..NumMsgs

\* ------------------------------------------------------------ input domains
\* --project / --subscription values, as sequences of characters (the empty
\* one is the flag's default, main.go:40-41).
Projects == {<<>>, <<"p">>}
Subscriptions == {<<>>, <<"s">>}
\* --url values: a usable URL, one url.Parse rejects, one without a scheme.
URLs == {"valid", "unparsable", "noScheme"}
\* Status codes the endpoint answers with during a run: a success, the first
\* code above the 2xx range, a server error (AllStatuses below has them all).
Statuses == {200, 300, 500}
\* What json.Marshal answers for a PubSubMessage (main.go:27-36): strings and
\* a map of strings always marshal, so the branch of main.go:97 is never taken.
MarshalOutcomes == {"ok"}
\* Errors of sub.Receive that are not the cancellation of the context.
ReceiveFailures == {"PermissionDenied"}
\* What sub.Receive returns when it ends because its context is done.
CancelReturns == {"nil", "Canceled"}

VARIABLES
    mainPc,        \* position of main (main.go:157-191)
    exitCode,      \* -1 while running; 0, 1 (log.Fatalf) or 2 (killed by SIGINT)
    cfg,           \* Config (main.go:20-24)
    shutdownPc,    \* position of the handleShutdown goroutine (main.go:148-155)
    sigChan,       \* number of signals buffered in sigChan (capacity 1)
    ctxCancelled,  \* ctx.Done() is closed
    cancelCalls,   \* calls of the cancel function
    client,        \* "none", "open" or "closed": the pubsub.Client
    closeCalls,    \* calls of client.Close
    recvState,     \* sub.Receive: "notStarted", "active", "failed", "returned"
    recvErr,       \* the error sub.Receive ended with ("nil" for none)
    recvCause,     \* why sub.Receive ended: "none", "cancel", "failure"
    loopErr,       \* what consumeMessages returned ("nil" for none)
    msgs,          \* per message: queue state, callback position, counters
    sigWhileRunning,    \* history: a signal reached sigChan while Receive ran
    cancelBeforeAnyMsg  \* history: cancel was called before any delivery

vars == <<mainPc, exitCode, cfg, shutdownPc, sigChan, ctxCancelled,
          cancelCalls, client, closeCalls, recvState, recvErr, recvCause,
          loopErr, msgs, sigWhileRunning, cancelBeforeAnyMsg>>

mainVars == <<mainPc, exitCode, client, closeCalls, loopErr>>
sigVars == <<shutdownPc, sigChan, sigWhileRunning>>
ctxVars == <<ctxCancelled, cancelCalls, cancelBeforeAnyMsg>>
recvVars == <<recvState, recvErr, recvCause>>

\* ------------------------------------------------------------------ errors
Nil == [kind |-> "nil", status |-> 0, cause |-> ""]
Err(kind, status, cause) == [kind |-> kind, status |-> status, cause |-> cause]

\* ---------------------------------------------------------------- sendPOST
\* What client.Do can answer for a URL: a URL without scheme never leaves the
\* process; otherwise a response arrives, or the transport fails (the
\* 10-second timeout of main.go:108 among the failures).
TransportOutcomes(url) ==
    IF url = "noScheme" THEN {"unsupportedScheme"}
    ELSE {"ok", "timeout", "refused"}

\* client.Do is reached (main.go:110): one HTTP POST is issued.
postIssued(url, marshal) == marshal = "ok" /\ url # "unparsable"

\* sendPOST sending the request a second time when the first attempt failed.
postCount_RetryOnFailure(url, marshal, transport, status) ==
    IF postIssued(url, marshal)
    THEN (IF transport = "ok" /\ status >= 200 /\ status < 300 THEN 1 ELSE 2)
    ELSE 0

\* Number of HTTP POSTs one call of sendPOST issues (main.go:101-113).
postCount(url, marshal, transport, status) ==
    IF postIssued(url, marshal) THEN 1 ELSE 0

\* sendPOST with the upper edge of the status range included.
sendPOST_InclusiveUpper(url, marshal, transport, status) ==
    IF marshal = "err" THEN Err("marshal", 0, "json")
    ELSE IF url = "unparsable" THEN Err("request", 0, "url")
    ELSE IF transport # "ok" THEN Err("transport", 0, transport)
    ELSE IF status >= 200 /\ status <= 300 THEN Nil
    ELSE Err("status", status, "")

\* main.go:95-123: sendPOST's result for what its calls answered.
sendPOST(url, marshal, transport, status) ==
    IF marshal = "err" THEN Err("marshal", 0, "json")
    ELSE IF url = "unparsable" THEN Err("request", 0, "url")
    ELSE IF transport # "ok" THEN Err("transport", 0, transport)
    ELSE IF status >= 200 /\ status < 300 THEN Nil
    ELSE Err("status", status, "")

\* ------------------------------------------------------- consumeMessages
\* consumeMessages without the comparison with context.Canceled.
LoopError_NoCancelCheck(err) == IF err # "nil" THEN "receiving:" \o err ELSE "nil"

\* consumeMessages dropping Receive's error.
LoopError_SwallowAll(err) == "nil"

\* main.go:140-144: the error consumeMessages returns for Receive's error.
LoopError(err) ==
    IF err # "nil" /\ err # "Canceled" THEN "receiving:" \o err ELSE "nil"

\* ---------------------------------------------------------- transformMessage
\* The literal parts of the format of main.go:90.
ProjectsPrefix == <<"p", "r", "o", "j", "e", "c", "t", "s", "/">>
SubscriptionsInfix ==
    <<"/", "s", "u", "b", "s", "c", "r", "i", "p", "t", "i", "o", "n", "s", "/">>

\* Non-empty identifier strings: up to MaxIdParts parts, each a letter or the
\* text "/subscriptions/" (parseFlags accepts every non-empty string).
IdAtoms == {<<"a">>, <<"b">>, SubscriptionsInfix}
RECURSIVE IdsOf(_)
IdsOf(n) ==
    IF n = 0 THEN {<<>>}
    ELSE LET S == IdsOf(n - 1) IN S \cup {s \o a : s \in S, a \in IdAtoms}
Identifiers == IdsOf(MaxIdParts) \ {<<>>}

\* Payloads: byte strings of every length modulo 3, over bytes whose sextets
\* reach both ends of the alphabet and its two last characters, and "hello".
ByteSamples == {0, 251, 255}
Hello == <<104, 101, 108, 108, 111>>
Payloads == UNION {[1..n -> ByteSamples] : n \in 0..MaxPayloadLen} \cup {Hello}

\* encoding/base64: the alphabet of StdEncoding.
StdAlphabet ==
    <<"A", "B", "C", "D", "E", "F", "G", "H", "I", "J", "K", "L", "M",
      "N", "O", "P", "Q", "R", "S", "T", "U", "V", "W", "X", "Y", "Z",
      "a", "b", "c", "d", "e", "f", "g", "h", "i", "j", "k", "l", "m",
      "n", "o", "p", "q", "r", "s", "t", "u", "v", "w", "x", "y", "z",
      "0", "1", "2", "3", "4", "5", "6", "7", "8", "9", "+", "/">>

\* (*Encoding).EncodeToString: three bytes give four characters of six bits
\* each; a last group of one or two bytes is padded with "=".
RECURSIVE EncodeWith(_, _)
EncodeWith(alphabet, B) ==
    LET n == Len(B) IN
    IF n = 0 THEN <<>>
    ELSE LET b2 == IF n >= 2 THEN B[2] ELSE 0
             b3 == IF n >= 3 THEN B[3] ELSE 0
             v == B[1] * 65536 + b2 * 256 + b3
             c1 == alphabet[(v \div 262144) + 1]
             c2 == alphabet[((v \div 4096) % 64) + 1]
             c3 == alphabet[((v \div 64) % 64) + 1]
             c4 == alphabet[(v % 64) + 1]
         IN IF n = 1 THEN <<c1, c2, "=", "=">>
            ELSE IF n = 2 THEN <<c1, c2, c3, "=">>
            ELSE <<c1, c2, c3, c4>> \o EncodeWith(alphabet, SubSeq(B, 4, n))

\* transformMessage encoding the payload with base64.URLEncoding.
Base64Encode_URLEncoding(B) ==
    EncodeWith([i \in 1..64 |-> IF i = 63 THEN "-"
                                ELSE IF i = 64 THEN "_" ELSE StdAlphabet[i]], B)

\* base64.StdEncoding.EncodeToString (main.go:86).
Base64Encode(B) == EncodeWith(StdAlphabet, B)

\* time.Time.Format(time.RFC3339) (main.go:89): the layout has no fractional
\* seconds, the text says the instant to the second.
FormatRFC3339(t) == t.sec

\* The pubsub.Message the queue holds as message m.
RawMsg(m) ==
    [Data |-> IF m = 1 THEN <<>> ELSE Hello,
     ID |-> m,
     OrderingKey |-> IF m = 1 THEN "" ELSE "k",
     PublishTime |-> [sec |-> m, nsec |-> 5],
     Attributes |-> IF m = 1 THEN {} ELSE {<<"k", "v">>}]

\* &PubSubMessage{} (main.go:84).
NoEnv ==
    [Message |-> [Attributes |-> {}, Data |-> <<>>, MessageID |-> 0,
                  OrderingKey |-> "", PublishTime |-> 0],
     Subscription |-> <<>>]

\* transformMessage with the subscription field made of the subscription only.
transformMessage_SubscriptionOnly(msg, c) ==
    [Message |-> [Attributes |-> msg.Attributes,
                  Data |-> Base64Encode(msg.Data),
                  MessageID |-> msg.ID,
                  OrderingKey |-> msg.OrderingKey,
                  PublishTime |-> FormatRFC3339(msg.PublishTime)],
     Subscription |-> SubscriptionsInfix \o c.Subscription]

\* main.go:83-92.
transformMessage(msg, c) ==
    [Message |-> [Attributes |-> msg.Attributes,
                  Data |-> Base64Encode(msg.Data),
                  MessageID |-> msg.ID,
                  OrderingKey |-> msg.OrderingKey,
                  PublishTime |-> FormatRFC3339(msg.PublishTime)],
     Subscription |-> ProjectsPrefix \o c.Project \o SubscriptionsInfix
                        \o c.Subscription]

\* ---------------------------------------------------------------- messages
NoInput == [marshal |-> "none", transport |-> "none", status |-> 0]
NewMsg(m) ==
    [q |-> "unpublished", pc |-> "idle", err |-> Nil, in |-> NoInput,
     raw |-> RawMsg(m), env |-> NoEnv,
     deliveries |-> 0, posts |-> 0, okPosts |-> 0, succ |-> 0,
     fail |-> 0, acks |-> 0, nacks |-> 0, errLogs |-> 0,
     inFlightAtCancel |-> FALSE]

InFlight(m) == msgs[m].pc # "idle"
NoneInFlight == \A m \in Msgs : ~InFlight(m)
Running == mainPc # "exited"

\* What the calls inside one sendPOST answer: json.Marshal's outcome, then
\* (only if a request is sent) client.Do's outcome, then (only if a response
\* arrived) its status code.
InputsOver(url, marshals, statuses) ==
    { [marshal |-> e, transport |-> "none", status |-> 0] :
         e \in marshals \ {"ok"} }
    \cup (IF url = "unparsable"
          THEN { [marshal |-> "ok", transport |-> "none", status |-> 0] }
          ELSE { [marshal |-> "ok", transport |-> t, status |-> 0] :
                    t \in TransportOutcomes(url) \ {"ok"} }
               \cup (IF "ok" \in TransportOutcomes(url)
                     THEN { [marshal |-> "ok", transport |-> "ok", status |-> s] :
                               s \in statuses }
                     ELSE {}))

PostInputs(url) == InputsOver(url, MarshalOutcomes, Statuses)

\* The endpoint received the POST and answered it with a 2xx status.
EndpointAccepted(url, in) ==
    /\ postIssued(url, in.marshal)
    /\ in.transport = "ok"
    /\ in.status \in 200..299

\* The callback without the return of main.go:134: Nack, then Ack as well.
Resolve_NoReturn(r) ==
    IF r.err # Nil
    THEN [r EXCEPT !.errLogs = @ + 1, !.nacks = @ + 1, !.acks = @ + 1,
                   !.q = "acked"]
    ELSE [r EXCEPT !.acks = @ + 1, !.q = "acked"]

\* The callback nacking whatever sendPOST returned.
Resolve_NackAlways(r) ==
    [r EXCEPT !.errLogs = @ + 1, !.nacks = @ + 1, !.q = "queued"]

\* The callback acking whatever sendPOST returned.
Resolve_AckAlways(r) == [r EXCEPT !.acks = @ + 1, !.q = "acked"]

\* main.go:130-137: what the callback does with sendPOST's result r.err.
Resolve(r) ==
    IF r.err # Nil
    THEN [r EXCEPT !.errLogs = @ + 1, !.nacks = @ + 1, !.q = "queued"]
    ELSE [r EXCEPT !.acks = @ + 1, !.q = "acked"]

\* -------------------------------------------------------------------- Init
Init ==
    /\ mainPc = "parseFlags"
    /\ exitCode = -1
    /\ cfg \in [Project : Projects, Subscription : Subscriptions, URL : URLs]
    /\ shutdownPc = "notStarted"
    /\ sigChan = 0
    /\ ctxCancelled = FALSE
    /\ cancelCalls = 0
    /\ client = "none"
    /\ closeCalls = 0
    /\ recvState = "notStarted"
    /\ recvErr = "nil"
    /\ recvCause = "none"
    /\ loopErr = "nil"
    /\ msgs = [m \in Msgs |-> NewMsg(m)]
    /\ sigWhileRunning = FALSE
    /\ cancelBeforeAnyMsg = FALSE

\* log.Fatalf (os.Exit(1)): no deferred call runs.
Fatal ==
    /\ mainPc' = "exited"
    /\ exitCode' = 1

\* -------------------------------------------------------------------- main
\* parseFlags rejecting a URL that is not well formed.
ParseFlags_ValidatesURL ==
    /\ mainPc = "parseFlags"
    /\ IF cfg.Project = <<>> \/ cfg.Subscription = <<>> \/ cfg.URL # "valid"
       THEN Fatal
       ELSE mainPc' = "goShutdown" /\ exitCode' = exitCode
    /\ UNCHANGED <<cfg, client, closeCalls, loopErr, msgs>>
    /\ UNCHANGED <<sigVars, ctxVars, recvVars>>

\* main.go:159-162 with parseFlags (main.go:39-58).
ParseFlags ==
    /\ mainPc = "parseFlags"
    /\ IF cfg.Project = <<>> \/ cfg.Subscription = <<>>
       THEN Fatal
       ELSE mainPc' = "goShutdown" /\ exitCode' = exitCode
    /\ UNCHANGED <<cfg, client, closeCalls, loopErr, msgs>>
    /\ UNCHANGED <<sigVars, ctxVars, recvVars>>

\* main.go:168-172: ctx is created and the goroutine is started.
GoShutdown ==
    /\ mainPc = "goShutdown"
    /\ mainPc' = "newClient"
    /\ shutdownPc' = "spawned"
    /\ UNCHANGED <<exitCode, cfg, client, closeCalls, loopErr, msgs, sigChan,
                   sigWhileRunning>>
    /\ UNCHANGED <<ctxVars, recvVars>>

\* main.go:175 with setupPubSubClient's pubsub.NewClient (main.go:62-65).
NewClient ==
    /\ mainPc = "newClient"
    /\ \E ok \in BOOLEAN :
          IF ok
          THEN mainPc' = "exists" /\ client' = "open" /\ exitCode' = exitCode
          ELSE Fatal /\ client' = client
    /\ UNCHANGED <<cfg, closeCalls, loopErr, msgs>>
    /\ UNCHANGED <<sigVars, ctxVars, recvVars>>

\* sub.Exists called with a context of its own instead of ctx.
ExistsOutcomes_IgnoresCancel == {"err", "missing", "exists"}

\* What sub.Exists(ctx) can answer: an RPC on a cancelled context fails.
ExistsOutcomes == IF ctxCancelled THEN {"err"} ELSE {"err", "missing", "exists"}

\* setupPubSubClient closing the client on its way out even on success.
Exists_ClosesOnSuccess ==
    /\ mainPc = "exists"
    /\ client' = "closed"
    /\ closeCalls' = closeCalls + 1
    /\ \E r \in ExistsOutcomes :
          IF r = "exists"
          THEN mainPc' = "consume" /\ exitCode' = exitCode
          ELSE Fatal
    /\ UNCHANGED <<cfg, loopErr, msgs>>
    /\ UNCHANGED <<sigVars, ctxVars, recvVars>>

\* setupPubSubClient returning its error without closing the client.
Exists_NoClose ==
    /\ mainPc = "exists"
    /\ \E r \in ExistsOutcomes :
          IF r = "exists"
          THEN /\ mainPc' = "consume"
               /\ UNCHANGED <<exitCode, client, closeCalls>>
          ELSE /\ UNCHANGED <<client, closeCalls>>
               /\ Fatal
    /\ UNCHANGED <<cfg, loopErr, msgs>>
    /\ UNCHANGED <<sigVars, ctxVars, recvVars>>

\* setupPubSubClient's sub.Exists (main.go:67-79) and main.go:176-178.
Exists ==
    /\ mainPc = "exists"
    /\ \E r \in ExistsOutcomes :
          IF r = "exists"
          THEN /\ mainPc' = "consume"
               /\ UNCHANGED <<exitCode, client, closeCalls>>
          ELSE /\ client' = "closed"
               /\ closeCalls' = closeCalls + 1
               /\ Fatal
    /\ UNCHANGED <<cfg, loopErr, msgs>>
    /\ UNCHANGED <<sigVars, ctxVars, recvVars>>

\* main.go:186 / main.go:127: consumeMessages calls sub.Receive.
ReceiveStart ==
    /\ mainPc = "consume"
    /\ mainPc' = "receiving"
    /\ recvState' = "active"
    /\ UNCHANGED <<exitCode, cfg, client, closeCalls, loopErr, msgs, recvErr,
                   recvCause>>
    /\ UNCHANGED <<sigVars, ctxVars>>

\* main.go:186-191: a loop error is fatal; otherwise main returns and its
\* deferred calls run: client.Close (main.go:179-183), cancel (main.go:169).
MainAfterConsume ==
    /\ mainPc = "consumed"
    /\ IF loopErr # "nil"
       THEN /\ Fatal
            /\ UNCHANGED <<client, closeCalls, ctxCancelled, cancelCalls>>
       ELSE /\ client' = "closed"
            /\ closeCalls' = closeCalls + 1
            /\ ctxCancelled' = TRUE
            /\ cancelCalls' = cancelCalls + 1
            /\ mainPc' = "exited"
            /\ exitCode' = 0
    /\ UNCHANGED <<cfg, loopErr, msgs, cancelBeforeAnyMsg>>
    /\ UNCHANGED <<sigVars, recvVars>>

\* ---------------------------------------------------------- handleShutdown
\* main.go:149-150: the channel is made and registered for os.Interrupt.
ShutdownNotify ==
    /\ Running
    /\ shutdownPc = "spawned"
    /\ shutdownPc' = "waiting"
    /\ UNCHANGED <<sigChan, sigWhileRunning, msgs, cfg>>
    /\ UNCHANGED <<mainVars, ctxVars, recvVars>>

NoDeliveryYet == \A m \in Msgs : msgs[m].deliveries = 0

\* handleShutdown calling cancelFunc without waiting for a signal.
ShutdownSignal_NoWait ==
    /\ Running
    /\ shutdownPc = "waiting"
    /\ sigChan' = 0
    /\ shutdownPc' = "done"
    /\ ctxCancelled' = TRUE
    /\ cancelCalls' = cancelCalls + 1
    /\ cancelBeforeAnyMsg' = (cancelBeforeAnyMsg \/ (~ctxCancelled /\ NoDeliveryYet))
    /\ msgs' = [m \in Msgs |->
                  [msgs[m] EXCEPT !.inFlightAtCancel = @ \/ InFlight(m)]]
    /\ UNCHANGED <<sigWhileRunning, cfg>>
    /\ UNCHANGED <<mainVars, recvVars>>

\* handleShutdown reading the signal without calling cancelFunc.
ShutdownSignal_NoCancel ==
    /\ Running
    /\ shutdownPc = "waiting"
    /\ sigChan > 0
    /\ sigChan' = sigChan - 1
    /\ shutdownPc' = "done"
    /\ UNCHANGED <<sigWhileRunning, cfg, msgs>>
    /\ UNCHANGED <<mainVars, recvVars, ctxVars>>

\* main.go:152-154: a signal is read from sigChan and cancel is called.
ShutdownSignal ==
    /\ Running
    /\ shutdownPc = "waiting"
    /\ sigChan > 0
    /\ sigChan' = sigChan - 1
    /\ shutdownPc' = "done"
    /\ ctxCancelled' = TRUE
    /\ cancelCalls' = cancelCalls + 1
    /\ cancelBeforeAnyMsg' = (cancelBeforeAnyMsg \/ (~ctxCancelled /\ NoDeliveryYet))
    /\ msgs' = [m \in Msgs |->
                  [msgs[m] EXCEPT !.inFlightAtCancel = @ \/ InFlight(m)]]
    /\ UNCHANGED <<sigWhileRunning, cfg>>
    /\ UNCHANGED <<mainVars, recvVars>>

\* ------------------------------------------------------- operating system
\* SIGINT before signal.Notify (main.go:150) has run: the Go runtime's
\* default action ends the process with status 2.
InterruptKill ==
    /\ Running
    /\ shutdownPc \in {"notStarted", "spawned"}
    /\ mainPc' = "exited"
    /\ exitCode' = 2
    /\ UNCHANGED <<shutdownPc, sigChan, sigWhileRunning, msgs, cfg, client,
                   closeCalls, loopErr>>
    /\ UNCHANGED <<ctxVars, recvVars>>

\* A handler that restores the default action once it has taken a signal:
\* the next SIGINT ends the process.
InterruptNotify_SecondKills ==
    /\ Running
    /\ shutdownPc \in {"waiting", "done"}
    /\ IF shutdownPc = "done"
       THEN /\ mainPc' = "exited"
            /\ exitCode' = 2
            /\ UNCHANGED <<sigChan, sigWhileRunning>>
       ELSE /\ sigChan' = 1
            /\ sigWhileRunning' = (sigWhileRunning \/ recvState = "active")
            /\ UNCHANGED <<mainPc, exitCode>>
    /\ UNCHANGED <<shutdownPc, msgs, cfg, client, closeCalls, loopErr>>
    /\ UNCHANGED <<ctxVars, recvVars>>

\* SIGINT once signal.Notify has run: stored in sigChan (capacity 1,
\* main.go:149), or dropped when the channel is full.
InterruptNotify ==
    /\ Running
    /\ shutdownPc \in {"waiting", "done"}
    /\ sigChan' = 1
    /\ sigWhileRunning' = (sigWhileRunning \/ recvState = "active")
    /\ UNCHANGED <<shutdownPc, msgs, cfg>>
    /\ UNCHANGED <<mainVars, ctxVars, recvVars>>

\* ------------------------------------------------- the queue and sub.Receive
\* A message is published to the subscription.
Publish(m) ==
    /\ Running
    /\ msgs[m].q = "unpublished"
    /\ msgs' = [msgs EXCEPT ![m].q = "queued"]
    /\ UNCHANGED <<cfg>>
    /\ UNCHANGED <<mainVars, sigVars, ctxVars, recvVars>>

\* sub.Receive hands message m to the callback, which transforms it
\* (main.go:127-128). Receive yields no message once its context is done.
CbTransform(m) ==
    /\ Running
    /\ recvState = "active"
    /\ ~ctxCancelled
    /\ msgs[m].q = "queued"
    /\ msgs[m].deliveries < MaxDeliveries
    /\ msgs' = [msgs EXCEPT ![m].q = "outstanding",
                            ![m].pc = "transformed",
                            ![m].env = transformMessage(msgs[m].raw, cfg),
                            ![m].deliveries = @ + 1]
    /\ UNCHANGED <<cfg>>
    /\ UNCHANGED <<mainVars, sigVars, ctxVars, recvVars>>

\* main.go:129: the callback of message m calls sendPOST, the HTTP stack
\* answers with in, and sendPOST returns err.
SendPOSTStep(m, in) ==
    /\ Running
    /\ msgs[m].pc = "transformed"
    /\ LET err == sendPOST(cfg.URL, in.marshal, in.transport, in.status)
       IN msgs' = [msgs EXCEPT
              ![m].pc = "sent",
              ![m].err = err,
              ![m].in = in,
              ![m].posts = @ + postCount(cfg.URL, in.marshal, in.transport, in.status),
              ![m].okPosts = @ + (IF EndpointAccepted(cfg.URL, in) THEN 1 ELSE 0),
              ![m].succ = @ + (IF err = Nil THEN 1 ELSE 0),
              ![m].fail = @ + (IF err # Nil THEN 1 ELSE 0)]
    /\ UNCHANGED <<cfg>>
    /\ UNCHANGED <<mainVars, sigVars, ctxVars, recvVars>>

CbSendPOST(m) == \E in \in PostInputs(cfg.URL) : SendPOSTStep(m, in)

\* A callback whose error ends the loop, as if it were Receive's own.
CbResolve_StopsLoop(m) ==
    /\ Running
    /\ msgs[m].pc = "sent"
    /\ msgs' = [msgs EXCEPT ![m] =
                  [Resolve(msgs[m]) EXCEPT !.pc = "idle", !.err = Nil,
                                           !.in = NoInput]]
    /\ IF msgs[m].err # Nil /\ recvState = "active"
       THEN /\ recvState' = "failed"
            /\ recvErr' = "delivery"
            /\ recvCause' = "failure"
       ELSE UNCHANGED recvVars
    /\ UNCHANGED <<cfg>>
    /\ UNCHANGED <<mainVars, sigVars, ctxVars>>

\* main.go:130-137: log and Nack on an error, Ack otherwise; the callback
\* returns.
CbResolve(m) ==
    /\ Running
    /\ msgs[m].pc = "sent"
    /\ msgs' = [msgs EXCEPT ![m] =
                  [Resolve(msgs[m]) EXCEPT !.pc = "idle", !.err = Nil,
                                           !.in = NoInput]]
    /\ UNCHANGED <<cfg>>
    /\ UNCHANGED <<mainVars, sigVars, ctxVars, recvVars>>

\* The receive mechanism fails for a reason other than cancellation; it
\* yields no further message.
ReceiveFail ==
    /\ Running
    /\ recvState = "active"
    /\ recvState' = "failed"
    /\ recvCause' = "failure"
    /\ \E e \in ReceiveFailures : recvErr' = e
    /\ UNCHANGED <<msgs, cfg>>
    /\ UNCHANGED <<mainVars, sigVars, ctxVars>>

\* sub.Receive returns once every started callback has returned, and
\* consumeMessages returns what main.go:140-144 makes of its error.
ReceiveReturnFailed ==
    /\ Running
    /\ recvState = "failed"
    /\ NoneInFlight
    /\ recvState' = "returned"
    /\ loopErr' = LoopError(recvErr)
    /\ mainPc' = "consumed"
    /\ UNCHANGED <<recvErr, recvCause, msgs, cfg, exitCode, client, closeCalls>>
    /\ UNCHANGED <<sigVars, ctxVars>>

\* consumeMessages returning on cancellation without waiting for Receive.
ReceiveReturnCancelled_NoWait ==
    /\ Running
    /\ recvState = "active"
    /\ ctxCancelled
    /\ recvState' = "returned"
    /\ recvCause' = "cancel"
    /\ \E e \in CancelReturns :
          /\ recvErr' = e
          /\ loopErr' = LoopError(e)
    /\ mainPc' = "consumed"
    /\ UNCHANGED <<msgs, cfg, exitCode, client, closeCalls>>
    /\ UNCHANGED <<sigVars, ctxVars>>

ReceiveReturnCancelled ==
    /\ Running
    /\ recvState = "active"
    /\ ctxCancelled
    /\ NoneInFlight
    /\ recvState' = "returned"
    /\ recvCause' = "cancel"
    /\ \E e \in CancelReturns :
          /\ recvErr' = e
          /\ loopErr' = LoopError(e)
    /\ mainPc' = "consumed"
    /\ UNCHANGED <<msgs, cfg, exitCode, client, closeCalls>>
    /\ UNCHANGED <<sigVars, ctxVars>>

\* -------------------------------------------------------------------- Next
Next ==
    \/ ParseFlags
    \/ GoShutdown
    \/ NewClient
    \/ Exists
    \/ ReceiveStart
    \/ MainAfterConsume
    \/ ShutdownNotify
    \/ ShutdownSignal
    \/ InterruptKill
    \/ InterruptNotify
    \/ ReceiveFail
    \/ ReceiveReturnFailed
    \/ ReceiveReturnCancelled
    \/ \E m \in Msgs : Publish(m)
    \/ \E m \in Msgs : CbTransform(m)
    \/ \E m \in Msgs : CbSendPOST(m)
    \/ \E m \in Msgs : CbResolve(m)

Spec == Init /\ [][Next]_vars

\* pubsub.NewClient and sub.Exists called with a cancelled context.
NewClientAfterCancel == ctxCancelled /\ NewClient
ExistsAfterCancel == ctxCancelled /\ Exists

\* The Go scheduler runs every goroutine that can run; sendPOST returns
\* within its timeout; sub.Receive returns once it may; a call made with a
\* cancelled context returns.
Fairness ==
    /\ WF_vars(NewClientAfterCancel)
    /\ WF_vars(ExistsAfterCancel)
    /\ WF_vars(ShutdownNotify)
    /\ WF_vars(ShutdownSignal)
    /\ WF_vars(ReceiveStart)
    /\ WF_vars(MainAfterConsume)
    /\ WF_vars(ReceiveReturnFailed)
    /\ WF_vars(ReceiveReturnCancelled)
    /\ \A m \in Msgs : WF_vars(CbSendPOST(m))
    /\ \A m \in Msgs : WF_vars(CbResolve(m))

FairSpec == Spec /\ Fairness

\* ------------------------------------------------- sendPOST on its own
\* sendPOST applied once to every answer of json.Marshal, http.NewRequest and
\* client.Do, every three-digit status code included: the callback of
\* message 1 stands at main.go:129.
AllStatuses == 100..599
AllMarshalOutcomes == {"ok", "err"}

PostInit ==
    /\ mainPc = "receiving"
    /\ exitCode = -1
    /\ cfg \in [Project : {<<"p">>}, Subscription : {<<"s">>}, URL : URLs]
    /\ shutdownPc = "waiting"
    /\ sigChan = 0
    /\ ctxCancelled = FALSE
    /\ cancelCalls = 0
    /\ client = "open"
    /\ closeCalls = 0
    /\ recvState = "active"
    /\ recvErr = "nil"
    /\ recvCause = "none"
    /\ loopErr = "nil"
    /\ msgs = [m \in Msgs |->
                 IF m = 1
                 THEN [NewMsg(m) EXCEPT !.q = "outstanding", !.pc = "transformed",
                                        !.env = transformMessage(RawMsg(m), cfg),
                                     !.deliveries = 1]
                 ELSE NewMsg(m)]
    /\ sigWhileRunning = FALSE
    /\ cancelBeforeAnyMsg = FALSE

PostNext ==
    \E in \in InputsOver(cfg.URL, AllMarshalOutcomes, AllStatuses) :
        SendPOSTStep(1, in)

PostSpec == PostInit /\ [][PostNext]_vars

\* ------------------------------------------- transformMessage on its own
\* The callback is about to run for message 1, for every identifier pair with
\* an empty payload and for every payload with one identifier pair.
TransformInit ==
    /\ mainPc = "receiving"
    /\ exitCode = -1
    /\ shutdownPc = "waiting"
    /\ sigChan = 0
    /\ ctxCancelled = FALSE
    /\ cancelCalls = 0
    /\ client = "open"
    /\ closeCalls = 0
    /\ recvState = "active"
    /\ recvErr = "nil"
    /\ recvCause = "none"
    /\ loopErr = "nil"
    /\ sigWhileRunning = FALSE
    /\ cancelBeforeAnyMsg = FALSE
    /\ \E B \in Payloads, p \in Identifiers, s \in Identifiers :
          /\ B = <<>> \/ (p = <<"a">> /\ s = <<"b">>)
          /\ cfg = [Project |-> p, Subscription |-> s, URL |-> "valid"]
          /\ msgs = [m \in Msgs |->
                       IF m = 1
                       THEN [NewMsg(m) EXCEPT !.q = "queued", !.raw.Data = B]
                       ELSE NewMsg(m)]

TransformNext == CbTransform(1)

TransformSpec == TransformInit /\ [][TransformNext]_vars

\* =================================================================== claims
Resolved(m) ==
    /\ msgs[m].pc = "idle"
    /\ msgs[m].acks + msgs[m].nacks = msgs[m].deliveries

\* main returned or called log.Fatalf (the process was not killed by a signal).
MainExited == mainPc = "exited" /\ exitCode \in {0, 1}

\* C1: every callback invocation that has returned issued exactly one of Ack
\* and Nack, and an invocation still running has issued none: per message the
\* acks and nacks together count the returned invocations.
C1_ExactlyOneAckOrNack ==
    \A m \in Msgs :
        msgs[m].acks + msgs[m].nacks =
            (IF InFlight(m) THEN msgs[m].deliveries - 1 ELSE msgs[m].deliveries)

C1_Witness_NackThenAck ==
    \E m \in Msgs :
        /\ msgs[m].pc = "idle"
        /\ msgs[m].deliveries = 2
        /\ msgs[m].nacks = 1
        /\ msgs[m].acks = 1

\* C2: a message is acked exactly for the invocations whose sendPOST returned
\* nil and nacked exactly for those whose sendPOST returned an error; it is
\* never acked more often than the endpoint answered its POST with 2xx; one
\* error naming the message is logged per nack and none otherwise.
C2_AckIffDeliverySucceeded ==
    \A m \in Msgs :
        LET r == msgs[m]
            pendingOk == IF r.pc = "sent" /\ r.err = Nil THEN 1 ELSE 0
            pendingFail == IF r.pc = "sent" /\ r.err # Nil THEN 1 ELSE 0
        IN /\ r.acks = r.succ - pendingOk
           /\ r.nacks = r.fail - pendingFail
           /\ r.acks <= r.okPosts
           /\ r.errLogs = r.nacks

C2_Witness_OneAckedOneNacked ==
    \E m, n \in Msgs :
        /\ m # n
        /\ msgs[m].pc = "idle" /\ msgs[m].acks = 1 /\ msgs[m].okPosts = 1
        /\ msgs[m].errLogs = 0
        /\ msgs[n].pc = "idle" /\ msgs[n].nacks = 1 /\ msgs[n].errLogs = 1
        /\ msgs[n].acks = 0

\* C3: a step in which a delivery fails or a message is nacked leaves the
\* loop as it was (Receive's state and error, consumeMessages' result, main's
\* position and the exit code), and consumeMessages returns an error only
\* when Receive itself ended with an error other than cancellation.
C3_DeliveryErrorKeepsLoopRunning ==
    /\ [][(\E m \in Msgs : \/ msgs'[m].fail > msgs[m].fail
                          \/ msgs'[m].nacks > msgs[m].nacks)
            => UNCHANGED <<recvState, recvErr, recvCause, loopErr, mainPc,
                           exitCode>>]_vars
    /\ [](loopErr # "nil" =>
            /\ recvState = "returned"
            /\ recvCause = "failure"
            /\ recvErr \in ReceiveFailures)

\* A message is handed to the callback again after its delivery failed,
\* while another message has failed too and the loop is still receiving.
C3_Witness_DeliveredAfterFailures ==
    \E m, n \in Msgs :
        /\ m # n
        /\ recvState = "active"
        /\ msgs[m].nacks = 1 /\ msgs[m].pc = "transformed"
        /\ msgs[n].nacks = MaxDeliveries

\* C4: when Receive ended because the context was cancelled consumeMessages
\* returns nil; when it ended for another reason consumeMessages returns an
\* error; and main, once it has exited by itself, exited with 1 on an error
\* and with 0 otherwise.
C4_ReceiveEndClassified ==
    recvState = "returned" =>
        /\ recvCause = "cancel" => loopErr = "nil"
        /\ recvCause = "failure" => loopErr # "nil"
        /\ MainExited => (exitCode = 1 <=> loopErr # "nil")

C4_Witness_CanceledIsCleanStop ==
    /\ recvState = "returned"
    /\ recvCause = "cancel"
    /\ recvErr = "Canceled"
    /\ mainPc = "exited"
    /\ exitCode = 0

\* C5: once the process has exited after the context was cancelled, or has
\* exited by itself, every message handed to the callback has been resolved:
\* no callback is left running and each invocation made one ack or nack.
C5_InFlightResolvedBeforeExit ==
    (mainPc = "exited" /\ (ctxCancelled \/ MainExited)) =>
        \A m \in Msgs : Resolved(m)

C5_Witness_InFlightAtCancelResolved ==
    /\ mainPc = "exited"
    /\ exitCode = 0
    /\ \E m \in Msgs : /\ msgs[m].inFlightAtCancel
                       /\ Resolved(m)
                       /\ msgs[m].deliveries >= 1
\* C6: at every moment at most one message is between the start of its
\* callback and its ack or nack.
C6_SingleMessageAtATime ==
    Cardinality({m \in Msgs : InFlight(m)}) <= 1

\* C7 as stated, in the form a finite run refutes: once a signal reached the
\* handler while Receive was running, the process exits with code zero only.
C7_InterruptAlwaysExitsZero ==
    (sigWhileRunning /\ mainPc = "exited") => exitCode = 0

\* C7 as amended: once a signal reached the registered handler while Receive
\* was running, the process eventually exits; it then exited with code zero
\* exactly when Receive did not itself fail, and with code one when it did;
\* and every exit main makes before Receive was called (flags, client
\* construction, subscription check) is non-zero.
C7_InterruptLeadsToExit ==
    /\ sigWhileRunning ~> (mainPc = "exited")
    /\ []((sigWhileRunning /\ mainPc = "exited") =>
            /\ recvState = "returned"
            /\ exitCode = (IF recvCause = "failure" THEN 1 ELSE 0))
    /\ []((mainPc = "exited" /\ recvState = "notStarted") => exitCode # 0)

C7_Witness_CleanShutdown ==
    /\ sigWhileRunning
    /\ mainPc = "exited"
    /\ exitCode = 0
    /\ recvCause = "cancel"
    /\ \E m \in Msgs : msgs[m].inFlightAtCancel

\* C8: sendPOST returns nil exactly when a request was sent, a response
\* arrived and its status s satisfies 200 <= s < 300; otherwise it returns an
\* error that carries the status received or the cause of the failure.
C8_SendPOSTSuccessIff2xx ==
    \A m \in Msgs :
        msgs[m].pc = "sent" =>
            LET in == msgs[m].in
                err == msgs[m].err
                responded == /\ in.marshal = "ok"
                             /\ cfg.URL # "unparsable"
                             /\ in.transport = "ok"
            IN /\ err = Nil <=> (responded /\ 200 <= in.status /\ in.status < 300)
               /\ (responded /\ err # Nil) =>
                     (err.kind = "status" /\ err.status = in.status)
               /\ (~responded /\ in.marshal # "ok") =>
                     (err.kind = "marshal" /\ err.cause # "")
               /\ (~responded /\ in.marshal = "ok" /\ cfg.URL = "unparsable") =>
                     (err.kind = "request" /\ err.cause # "")
               /\ (~responded /\ in.marshal = "ok" /\ cfg.URL # "unparsable") =>
                     (err.kind = "transport" /\ err.cause = in.transport)

C8_Witness_Status299Succeeds ==
    \E m \in Msgs :
        /\ msgs[m].pc = "sent"
        /\ msgs[m].in.status = 299
        /\ msgs[m].err = Nil

\* C9: per message the POSTs issued never exceed the callback invocations
\* made, an invocation that has not yet called sendPOST has issued none, and
\* every POST after the first follows a nack of the message.
C9_NoRetryInsideForwarder ==
    \A m \in Msgs :
        LET r == msgs[m]
        IN /\ r.posts <= r.deliveries
           /\ r.pc = "transformed" => r.posts <= r.deliveries - 1
           /\ r.posts <= r.nacks + 1

C9_Witness_SecondPostAfterNack ==
    \E m \in Msgs :
        /\ msgs[m].posts = 2
        /\ msgs[m].deliveries = 2
        /\ msgs[m].nacks >= 1

C11_CancelOnlyAfterSignal ==
    /\ [][(shutdownPc' = "done" /\ shutdownPc # "done") =>
            /\ sigChan > 0
            /\ cancelCalls' = cancelCalls + 1
            /\ ctxCancelled']_vars
    /\ [][(cancelCalls' # cancelCalls /\ mainPc' # "exited") =>
            /\ shutdownPc = "waiting"
            /\ shutdownPc' = "done"
            /\ sigChan > 0]_vars
    /\ [](Running => cancelCalls = (IF shutdownPc = "done" THEN 1 ELSE 0))
    /\ []((recvState = "active" /\ ctxCancelled) => shutdownPc = "done")

C11_Witness_CancelledWhileReceiving ==
    /\ recvState = "active"
    /\ ctxCancelled
    /\ cancelCalls = 1
    /\ shutdownPc = "done"

\* C12: when main has exited on a setup error (before Receive was called),
\* no client is open: none was constructed, or the one constructed was
\* closed, once, by setupPubSubClient.
C12_SetupFailureClosesClient ==
    (mainPc = "exited" /\ exitCode = 1 /\ recvState = "notStarted") =>
        /\ client \in {"none", "closed"}
        /\ closeCalls = (IF client = "closed" THEN 1 ELSE 0)

C12_Witness_ClosedAfterExistsFailed ==
    /\ mainPc = "exited"
    /\ exitCode = 1
    /\ recvState = "notStarted"
    /\ client = "closed"
    /\ closeCalls = 1
\* C15: a context once cancelled stays cancelled, and a further signal -
\* one arriving while the first is still in sigChan, or after handleShutdown
\* took the first - changes nothing but sigChan: main, the context, Receive
\* and every message and running callback stay as they were; main's deferred
\* cancel leaves the context cancelled.
C15_CancellationIdempotent ==
    /\ [][ctxCancelled => ctxCancelled']_vars
    /\ [][(InterruptNotify /\ (sigChan = 1 \/ shutdownPc = "done")) =>
            UNCHANGED <<mainVars, ctxVars, recvVars, msgs, shutdownPc, cfg>>]_vars
    /\ [](cancelCalls > 1 => (mainPc = "exited" /\ exitCode = 0 /\ ctxCancelled))

\* A further signal sits in sigChan after the first one was handled, the
\* callback that was running at the cancellation finished, the exit is clean.
C15_Witness_SecondSignalCleanExit ==
    /\ shutdownPc = "done"
    /\ sigChan = 1
    /\ mainPc = "exited"
    /\ exitCode = 0
    /\ cancelCalls = 2
    /\ \E m \in Msgs : msgs[m].inFlightAtCancel /\ Resolved(m)

\* C16: main exits at flag parsing only for an empty project or subscription,
\* whatever the URL; with a malformed URL no sendPOST succeeds, so every
\* callback that returned nacked its message and logged one error, no message
\* is acked, and consumeMessages returns an error only if Receive itself
\* failed.
C16_MalformedURLIsPerMessageError ==
    /\ (mainPc = "exited" /\ exitCode = 1 /\ shutdownPc = "notStarted") =>
          (cfg.Project = <<>> \/ cfg.Subscription = <<>>)
    /\ cfg.URL \in {"unparsable", "noScheme"} =>
          /\ \A m \in Msgs :
                /\ msgs[m].acks = 0
                /\ msgs[m].succ = 0
                /\ msgs[m].q # "acked"
                /\ msgs[m].errLogs = msgs[m].nacks
                /\ msgs[m].nacks =
                      (IF InFlight(m) THEN msgs[m].deliveries - 1
                                      ELSE msgs[m].deliveries)
          /\ loopErr # "nil" => recvCause = "failure"

C16_Witness_NackedTwiceLoopReceiving ==
    /\ cfg.URL = "unparsable"
    /\ recvState = "active"
    /\ \E m \in Msgs : /\ msgs[m].nacks = 2
                       /\ msgs[m].errLogs = 2
                       /\ msgs[m].posts = 0
                       /\ msgs[m].q = "queued"
\* C17: once the endpoint answered the POST of a message with 2xx the message
\* is eventually acked (unless a SIGINT kills the process first) and stays
\* so: from some point on every such message is acked; a message
\* is never acked more often than its POST was answered with 2xx; and while
\* no attempt has succeeded the message is nacked once per returned attempt
\* and is back in the queue for redelivery.
C17_AtLeastOnce ==
    /\ <>[](\A m \in Msgs :
              (msgs[m].okPosts >= 1) => (msgs[m].acks = 1 \/ exitCode = 2))
    /\ [](\A m \in Msgs :
            /\ msgs[m].acks <= msgs[m].okPosts
            /\ msgs[m].okPosts = 0 =>
                  /\ msgs[m].acks = 0
                  /\ msgs[m].nacks =
                        (IF InFlight(m) THEN msgs[m].deliveries - 1
                                        ELSE msgs[m].deliveries)
                  /\ (msgs[m].nacks >= 1 /\ ~InFlight(m)) => msgs[m].q = "queued")

C17_Witness_AckedOnRedelivery ==
    \E m \in Msgs :
        /\ msgs[m].q = "acked"
        /\ msgs[m].posts = 2
        /\ msgs[m].okPosts = 1
        /\ msgs[m].nacks = 1
        /\ msgs[m].acks = 1

\* C18: while Receive is running or a callback has not returned the client
\* is open; a client closed after Receive was called was closed after Receive
\* returned and every message handed out was resolved.
C18_ClientOpenWhileLoopRuns ==
    /\ (recvState \in {"active", "failed"} \/ ~NoneInFlight) => client = "open"
    /\ (client = "closed" /\ recvState # "notStarted") =>
          /\ recvState = "returned"
          /\ \A m \in Msgs : Resolved(m)

C18_Witness_ClosedAfterLoop ==
    /\ client = "closed"
    /\ recvState = "returned"
    /\ \E m \in Msgs : msgs[m].deliveries >= 1 /\ Resolved(m)

\* C19: whenever main has exited by itself after setupPubSubClient succeeded,
\* the client has been closed, exactly once.
C19_ClientClosedOnEveryExit ==
    (MainExited /\ recvState # "notStarted") =>
        (client = "closed" /\ closeCalls = 1)

\* A signal has reached sigChan (handleShutdown may have taken it already).
SigDelivered == sigChan = 1 \/ shutdownPc = "done"

\* C20 as stated, for the case it adds: once handleShutdown has handled a
\* signal, a process that had constructed its client exits with code zero.
C20_InterruptNeverFatal ==
    (shutdownPc = "done" /\ mainPc = "exited" /\ client # "none") =>
        exitCode = 0

\* C20 as amended: once a signal reached the registered handler the process
\* eventually exits; it exits with code zero exactly when Receive was called
\* and returned for the cancellation, and with code one otherwise: on a loop
\* error, and on a setup error, which the subscription check always gives
\* when it is made on the cancelled context.
C20_InterruptLeadsToExitOrSetupError ==
    /\ SigDelivered ~> (mainPc = "exited")
    /\ []((SigDelivered /\ mainPc = "exited") =>
            exitCode = (IF recvCause = "cancel" THEN 0 ELSE 1))
    /\ [][(mainPc = "exists" /\ ctxCancelled /\ mainPc' # "exists") =>
            (mainPc' = "exited" /\ exitCode' = 1 /\ client' = "closed")]_vars

C20_Witness_SetupErrorAfterInterrupt ==
    /\ shutdownPc = "done"
    /\ ctxCancelled
    /\ mainPc = "exited"
    /\ exitCode = 1
    /\ recvState = "notStarted"
    /\ client = "closed"
\* The callback of message m has run transformMessage.
Transformed(m) == msgs[m].deliveries >= 1

HasSlash(id) == \E i \in 1..Len(id) : id[i] = "/"

\* The subscription field transformMessage gives for another identifier pair.
SubscriptionFieldFor(m, p, s) ==
    transformMessage(msgs[m].raw,
                     [cfg EXCEPT !.Project = p, !.Subscription = s]).Subscription

\* C13 as stated: every identifier pair other than the configured one gives a
\* subscription field other than the one in the envelope.
C13_SubscriptionInjective ==
    \A m \in Msgs : Transformed(m) =>
        \A p \in Identifiers, s \in Identifiers :
            (<<p, s>> # <<cfg.Project, cfg.Subscription>>) =>
                SubscriptionFieldFor(m, p, s) # msgs[m].env.Subscription

\* C13 as amended: the subscription field is "projects/" + project +
\* "/subscriptions/" + subscription of the Configuration, and when the
\* configured project has no "/" every other identifier pair whose project has
\* no "/" gives another subscription field.
C13_SubscriptionInjectiveWithoutSlash ==
    \A m \in Msgs : Transformed(m) =>
        /\ msgs[m].env.Subscription =
              <<"p", "r", "o", "j", "e", "c", "t", "s", "/">> \o cfg.Project
              \o <<"/", "s", "u", "b", "s", "c", "r", "i", "p", "t", "i", "o",
                   "n", "s", "/">> \o cfg.Subscription
        /\ ~HasSlash(cfg.Project) =>
              \A p \in Identifiers, s \in Identifiers :
                  (~HasSlash(p) /\ <<p, s>> # <<cfg.Project, cfg.Subscription>>)
                      => SubscriptionFieldFor(m, p, s) # msgs[m].env.Subscription

C13_Witness_ProjectsABSubscriptionsBA ==
    /\ Transformed(1)
    /\ cfg.Project = <<"a", "b">>
    /\ cfg.Subscription = <<"b", "a">>
    /\ msgs[1].env.Subscription =
          <<"p", "r", "o", "j", "e", "c", "t", "s", "/", "a", "b", "/", "s",
            "u", "b", "s", "c", "r", "i", "p", "t", "i", "o", "n", "s", "/",
            "b", "a">>

\* Decoding of standard base64, written from RFC 4648: four characters give
\* 24 bits, "=" in the last group marks one or two missing bytes.
CharValue(c) ==
    IF \E i \in 1..64 : StdAlphabet[i] = c
    THEN (CHOOSE i \in 1..64 : StdAlphabet[i] = c) - 1
    ELSE 0

RECURSIVE Base64Decode(_)
Base64Decode(S) ==
    IF Len(S) < 4 THEN <<>>
    ELSE LET v == CharValue(S[1]) * 262144 + CharValue(S[2]) * 4096
                  + CharValue(S[3]) * 64 + CharValue(S[4])
             k == IF S[3] = "=" THEN 1 ELSE IF S[4] = "=" THEN 2 ELSE 3
             bytes == <<v \div 65536, (v \div 256) % 256, v % 256>>
         IN SubSeq(bytes, 1, k) \o Base64Decode(SubSeq(S, 5, Len(S)))

\* C14: the data field of the envelope decodes to exactly the payload, has
\* four characters of the standard alphabet (or padding) per three bytes
\* begun, is empty for the empty payload, and is the known text for known
\* payloads.
C14_DataIsBase64OfPayload ==
    \A m \in Msgs : Transformed(m) =>
        LET B == msgs[m].raw.Data
            D == msgs[m].env.Message.Data
        IN /\ Base64Decode(D) = B
           /\ Len(D) = 4 * ((Len(B) + 2) \div 3)
           /\ \A i \in 1..Len(D) :
                 D[i] = "=" \/ \E j \in 1..64 : StdAlphabet[j] = D[i]
           /\ Len(B) = 0 => Len(D) = 0
           /\ B = Hello => D = <<"a", "G", "V", "s", "b", "G", "8", "=">>
           /\ B = <<251>> => D = <<"+", "w", "=", "=">>
           /\ B = <<255, 255>> => D = <<"/", "/", "8", "=">>
           /\ B = <<0, 0, 0>> => D = <<"A", "A", "A", "A">>

C14_Witness_HelloEncoded ==
    /\ Transformed(1)
    /\ msgs[1].raw.Data = <<104, 101, 108, 108, 111>>
    /\ msgs[1].env.Message.Data = <<"a", "G", "V", "s", "b", "G", "8", "=">>

====
